---- MODULE Spec2Model ----
(***************************************************************************)
(* waldb: a key-value store on one append-only log file (src/main.rs).     *)
(* The log is modelled byte for byte; the engine is the StorageEngine      *)
(* struct (db_file, key_position_map, sequence_number).                    *)
(***************************************************************************)
EXTENDS Integers, Sequences, FiniteSets, TLC

VARIABLES
    db_file,            \* the log file's bytes as the operating system shows them
    synced,             \* how many leading bytes of db_file are on stable storage
    proc,               \* "up" | "panicked" | "closed" | "lost" (power failure)
    key_position_map,   \* StorageEngine.key_position_map: key -> entry start offset
    sequence_number,    \* StorageEngine.sequence_number (i32)
    op,                 \* the last operation performed (history variable)
    ret,                \* what the last get returned (history variable)
    hist,               \* per key, the values set/deleted by the running engine
    acked,              \* per key, the last value whose set() returned, over all runs
    nops,               \* set/delete calls and power failures so far
    ncrash,             \* torn writes and power failures so far
    writers,            \* the two engines of the concurrent-append scenario
    cmd,                \* the last line the command loop read, as tokens
    codec               \* the last length pair given to the encoder and its output

vars == <<db_file, synced, proc, key_position_map, sequence_number, op, ret,
          hist, acked, nops, ncrash, writers, cmd, codec>>

engine_vars == <<synced, proc, key_position_map, sequence_number, op, ret,
                 hist, acked, nops, ncrash>>

\* what the engine's own operations never touch
other_vars == <<writers, cmd, codec>>

-----------------------------------------------------------------------------
(* Bounds of the model *)

NumKeys == 2
MaxValLen == 2
MaxOps == 3
MaxCrashes == 1

(* Offsets and widths of the record layout, as the code writes and reads it *)

TimestampLen == 16
KeyLenOffset == 16
ValLenOffset == 20
HeaderLen == 24
LenFieldWidth == 4

-----------------------------------------------------------------------------
(* Inputs *)

\* keys "a", "b", ... as UTF-8 bytes (every byte of the model is below 128, so
\* String::from_utf8 never fails and a 4-byte length stays below 2^31)
Keys == { <<96 + i>> : i \in 1..NumKeys }

\* values "", "1", "22", ... as UTF-8 bytes
Vals == { [i \in 1..n |-> 48 + n] : n \in 0..MaxValLen }

\* SystemTime::now() as milliseconds since the epoch, hi * 2^24 + lo
\* (0x017F12_345678 ms, February 2022)
Times == { <<98066, 3430008>> }

-----------------------------------------------------------------------------
(* Byte-level helpers *)

RECURSIVE to_be_bytes(_, _)
\* the w low-order bytes of n, most significant first
to_be_bytes(n, w) ==
    IF w = 0 THEN <<>> ELSE Append(to_be_bytes(n \div 256, w - 1), n % 256)

\* u128::to_be_bytes of the millisecond count t = <<hi, lo>>
timestamp_bytes(t) == to_be_bytes(t[1], TimestampLen - 3) \o to_be_bytes(t[2], 3)

\* u32::from_be_bytes
from_be_bytes(b) == ((b[1] * 256 + b[2]) * 256 + b[3]) * 256 + b[4]

\* FileExt::read_exact_at: n bytes at offset off, or an error on a short read
read_exact_at(f, n, off) ==
    IF n = 0 THEN [ok |-> TRUE, bytes |-> <<>>]
    ELSE IF off > Len(f) \/ n > Len(f) - off THEN [ok |-> FALSE, bytes |-> <<>>]
    ELSE [ok |-> TRUE, bytes |-> SubSeq(f, off + 1, off + n)]

\* the file after buf was written at offset off (a gap reads as zeros)
write_at(f, buf, off) ==
    LET end == IF off + Len(buf) > Len(f) THEN off + Len(buf) ELSE Len(f)
    IN  [i \in 1..end |->
            IF i > off /\ i <= off + Len(buf) THEN buf[i - off]
            ELSE IF i <= Len(f) THEN f[i] ELSE 0]

\* FileExt::write_all_at that stops after n bytes (n = Len(buf): success)
\* a write through the file cursor, which a newly opened file has at offset 0
write_all_from_start(f, buf, off, n) == write_at(f, SubSeq(buf, 1, n), 0)

write_all_at(f, buf, off, n) == write_at(f, SubSeq(buf, 1, n), off)

-----------------------------------------------------------------------------
(* LogEntry *)

\* a usize length as <<hi, lo>>, hi * 2^24 + lo (a length of 2^32 or more,
\* which TLC's integers cannot hold, has hi >= 256)
usize(n) == <<n \div 16777216, n % 16777216>>

\* (len as u32).to_be_bytes(): the cast keeps the 32 low-order bits
len_as_u32_be_bytes(len) ==
    to_be_bytes(len[1], LenFieldWidth - 3) \o to_be_bytes(len[2], 3)

key_len_field(key) == len_as_u32_be_bytes(usize(Len(key)))
val_len_field(val) == len_as_u32_be_bytes(usize(Len(val)))

\* the 24 bytes to_binary_log puts before the key, from the two lengths
binary_header(t, key_len, val_len) ==
    timestamp_bytes(t) \o len_as_u32_be_bytes(key_len)
        \o len_as_u32_be_bytes(val_len)

\* an entry with an 8-byte (u64) millisecond timestamp
to_binary_log_u64_timestamp(t, key, val) ==
    to_be_bytes(t[1], 5) \o to_be_bytes(t[2], 3)
        \o key_len_field(key) \o val_len_field(val) \o key \o val

to_binary_log(t, key, val) ==
    binary_header(t, usize(Len(key)), usize(Len(val))) \o key \o val

-----------------------------------------------------------------------------
(* StorageEngine: index rebuild *)

\* an insert that keeps the offset a key already has
map_insert_if_absent(mp, key, pos) ==
    [k \in DOMAIN mp \cup {key} |-> IF k \in DOMAIN mp THEN mp[k] ELSE pos]

map_insert(mp, key, pos) ==
    [k \in DOMAIN mp \cup {key} |-> IF k = key THEN pos ELSE mp[k]]

EmptyMap == [k \in {} |-> 0]

RECURSIVE scan(_, _, _, _)
\* the loop of load_key_pos_map_from_file from current_pos on
scan(f, current_pos, mp, seq) ==
    LET stop == [mp |-> mp, seq |-> seq]
        ts == read_exact_at(f, TimestampLen, current_pos)
        kl == read_exact_at(f, LenFieldWidth, current_pos + KeyLenOffset)
        vl == read_exact_at(f, LenFieldWidth, current_pos + ValLenOffset)
    IN  IF ~(current_pos < Len(f)) THEN stop
        ELSE IF ~ts.ok THEN stop
        ELSE IF ~kl.ok THEN stop
        ELSE IF ~vl.ok THEN stop
        ELSE LET key_len == from_be_bytes(kl.bytes)
                 val_len == from_be_bytes(vl.bytes)
                 kb == read_exact_at(f, key_len, current_pos + HeaderLen)
             IN  IF ~kb.ok THEN stop
                 ELSE scan(f, current_pos + HeaderLen + key_len + val_len,
                           map_insert(mp, kb.bytes, current_pos), seq + 1)

\* a rebuild that scans into the index the engine already holds
load_key_pos_map_into_held_index(f, seq) == scan(f, 0, key_position_map, seq)

load_key_pos_map_from_file(f, seq) == scan(f, 0, EmptyMap, seq)

-----------------------------------------------------------------------------
(* StorageEngine: get *)

None == [kind |-> "none", val |-> <<>>]
Some(v) == [kind |-> "some", val |-> v]
Panic == [kind |-> "panic", val |-> <<>>]
NoRet == [kind |-> "nil", val |-> <<>>]

\* faulty variant: the value looked for right after a 16-byte prefix
val_offset_short_prefix(pos, key_len) == pos + TimestampLen + key_len

\* where get reads the value of the entry at pos
val_offset(pos, key_len) == pos + HeaderLen + key_len

\* faulty variant: a zero val_len not treated as a delete
is_tombstone_never(val_len) == FALSE

\* get's test for a deleted key
is_tombstone(val_len) == val_len = 0

\* the outcome of get(key) on file f with index mp
get(f, mp, key) ==
    IF key \notin DOMAIN mp THEN None
    ELSE LET pos == mp[key]
             kl == read_exact_at(f, LenFieldWidth, pos + KeyLenOffset)
             vl == read_exact_at(f, LenFieldWidth, pos + ValLenOffset)
         IN  IF ~kl.ok THEN Panic
             ELSE IF ~vl.ok THEN Panic
             ELSE LET key_len == from_be_bytes(kl.bytes)
                      val_len == from_be_bytes(vl.bytes)
                      vb == read_exact_at(f, val_len, val_offset(pos, key_len))
                  IN  IF is_tombstone(val_len) THEN None
                      ELSE IF ~vb.ok THEN Panic
                      ELSE Some(vb.bytes)

-----------------------------------------------------------------------------
(* History records *)

Op(kind, key, val, n) == [kind |-> kind, key |-> key, val |-> val, n |-> n]

\* String::new(), the key the command loop passes when the line has none
EmptyKey == <<>>

NoHist == [k \in Keys \cup {EmptyKey} |-> <<>>]
NoAck == [k \in Keys \cup {EmptyKey} |-> [set |-> FALSE, val |-> <<>>]]

NoWriters == <<>>
NoCmd == <<>>
NoCodec == <<>>

-----------------------------------------------------------------------------
(* The engine's operations *)

Init ==
    /\ db_file = <<>>
    /\ synced = 0
    /\ proc = "up"
    /\ key_position_map = EmptyMap
    /\ sequence_number = 0
    /\ op = Op("new", <<>>, <<>>, 0)
    /\ ret = NoRet
    /\ hist = NoHist
    /\ acked = NoAck
    /\ nops = 0
    /\ ncrash = 0
    /\ writers = NoWriters
    /\ cmd = NoCmd
    /\ codec = NoCodec

\* StorageEngine::new on the existing file, by a fresh process
New ==
    /\ proc # "up"
    /\ LET r == load_key_pos_map_from_file(db_file, 0)
       IN  /\ key_position_map' = r.mp
           /\ sequence_number' = r.seq
    /\ proc' = "up"
    /\ op' = Op("new", <<>>, <<>>, 0)
    /\ ret' = NoRet
    /\ hist' = NoHist
    /\ UNCHANGED <<db_file, synced, acked, nops, ncrash, other_vars>>

\* StorageEngine::set(key, val), the write stopping after n bytes of the entry
\* (n = the entry's length: write_all_at returned Ok)
set(kind, key, val, t, n) ==
    LET binary_log_entry == to_binary_log(t, key, val)
        file_len == Len(db_file)
        written == n = Len(binary_log_entry)
    IN  /\ db_file' = write_all_at(db_file, binary_log_entry, file_len, n)
        /\ ret' = NoRet
        /\ nops' = nops + 1
        /\ IF written
           THEN /\ sequence_number' = sequence_number + 1
                /\ key_position_map' = map_insert(key_position_map, key, file_len)
                /\ op' = Op(kind, key, val, n)
                /\ hist' = [hist EXCEPT ![key] = Append(@, val)]
                /\ acked' = [acked EXCEPT ![key] = [set |-> TRUE, val |-> val]]
                /\ UNCHANGED <<proc, ncrash>>
           ELSE /\ ncrash < MaxCrashes
                /\ proc' = "panicked"
                /\ ncrash' = ncrash + 1
                /\ op' = Op(kind \o "_fail", key, val, n)
                /\ UNCHANGED <<sequence_number, key_position_map, hist, acked>>
        /\ UNCHANGED <<synced, writers, codec>>

Set ==
    /\ proc = "up"
    /\ nops < MaxOps
    /\ \E key \in Keys, val \in Vals, t \in Times :
         \E n \in 0..Len(to_binary_log(t, key, val)) : set("set", key, val, t, n)
    /\ UNCHANGED cmd

\* a delete that appends the tombstone and drops the key from the index
Delete_dropping_key ==
    /\ proc = "up"
    /\ nops < MaxOps
    /\ \E key \in Keys, t \in Times :
         LET binary_log_entry == to_binary_log(t, key, <<>>)
         IN  /\ db_file' = db_file \o binary_log_entry
             /\ key_position_map' =
                    [k \in DOMAIN key_position_map \ {key} |-> key_position_map[k]]
             /\ sequence_number' = sequence_number + 1
             /\ op' = Op("delete", key, <<>>, Len(binary_log_entry))
             /\ hist' = [hist EXCEPT ![key] = Append(@, <<>>)]
             /\ acked' = [acked EXCEPT ![key] = [set |-> TRUE, val |-> <<>>]]
    /\ ret' = NoRet
    /\ nops' = nops + 1
    /\ UNCHANGED <<synced, proc, ncrash, other_vars>>

\* StorageEngine::delete(key)
Delete ==
    /\ proc = "up"
    /\ nops < MaxOps
    /\ \E key \in Keys, t \in Times :
         \E n \in 0..Len(to_binary_log(t, key, <<>>)) : set("delete", key, <<>>, t, n)
    /\ UNCHANGED cmd

\* a get that drops a key from the index once it has read its tombstone
Get_dropping_tombstones ==
    /\ proc = "up"
    /\ \E key \in Keys :
         LET r == get(db_file, key_position_map, key)
         IN  /\ ret' = r
             /\ op' = Op("get", key, <<>>, 0)
             /\ proc' = IF r.kind = "panic" THEN "panicked" ELSE proc
             /\ key_position_map' =
                    IF r = None
                    THEN [k \in DOMAIN key_position_map \ {key} |->
                              key_position_map[k]]
                    ELSE key_position_map
    /\ UNCHANGED <<db_file, synced, sequence_number, hist, acked,
                   nops, ncrash, other_vars>>

\* StorageEngine::get(key)
Get ==
    /\ proc = "up"
    /\ \E key \in Keys :
         LET r == get(db_file, key_position_map, key)
         IN  /\ ret' = r
             /\ op' = Op("get", key, <<>>, 0)
             /\ proc' = IF r.kind = "panic" THEN "panicked" ELSE proc
    /\ UNCHANGED <<db_file, synced, key_position_map, sequence_number, hist, acked,
                   nops, ncrash, other_vars>>

\* StorageEngine::compact
Compact ==
    /\ proc = "up"
    /\ proc' = "panicked"
    /\ op' = Op("compact", <<>>, <<>>, 0)
    /\ ret' = NoRet
    /\ UNCHANGED <<db_file, synced, key_position_map, sequence_number, hist, acked,
                   nops, ncrash, other_vars>>

\* the process ends and its File is dropped
Close ==
    /\ proc = "up"
    /\ proc' = "closed"
    /\ op' = Op("close", <<>>, <<>>, 0)
    /\ ret' = NoRet
    /\ UNCHANGED <<db_file, synced, key_position_map, sequence_number, hist, acked,
                   nops, ncrash, other_vars>>

\* the machine loses power: the file was never synced, so any tail written since
\* the last restart may be missing afterwards
PowerLoss ==
    /\ proc = "up"
    /\ \E n \in synced..Len(db_file) :
         /\ db_file' = SubSeq(db_file, 1, n)
         /\ synced' = n
         /\ op' = Op("power_loss", <<>>, <<>>, n)
    /\ proc' = "lost"
    /\ ret' = NoRet
    /\ ncrash < MaxCrashes
    /\ ncrash' = ncrash + 1
    /\ nops < MaxOps
    /\ nops' = nops + 1
    /\ UNCHANGED <<key_position_map, sequence_number, hist, acked, other_vars>>

Next == New \/ Set \/ Delete \/ Get \/ Compact \/ Close \/ PowerLoss

Spec == Init /\ [][Next]_vars

-----------------------------------------------------------------------------
(* Two engines appending to the same file, set() taken one step at a time *)

Writers == {1, 2}

InitConc ==
    /\ \E t \in Times, key \in Keys, val \in Vals :
         db_file \in { <<>>, to_binary_log(t, key, val) }
    /\ synced = 0
    /\ proc = "closed"
    /\ key_position_map = EmptyMap
    /\ sequence_number = 0
    /\ op = Op("new", <<>>, <<>>, 0)
    /\ ret = NoRet
    /\ hist = NoHist
    /\ acked = NoAck
    /\ nops = 0
    /\ ncrash = 0
    /\ writers = [w \in Writers |->
                    LET r == load_key_pos_map_from_file(db_file, 0)
                    IN  [pc |-> "idle", key |-> <<>>, binary_log_entry |-> <<>>,
                         file_len |-> 0, key_position_map |-> r.mp,
                         sequence_number |-> r.seq]]
    /\ cmd = NoCmd
    /\ codec = NoCodec

\* set(): the entry is encoded and the file's length is read
WriterFileLen(w) ==
    /\ writers[w].pc = "idle"
    /\ \E key \in Keys, val \in Vals, t \in Times :
         writers' = [writers EXCEPT
                        ![w].pc = "write",
                        ![w].key = key,
                        ![w].binary_log_entry = to_binary_log(t, key, val),
                        ![w].file_len = Len(db_file)]
    /\ UNCHANGED <<db_file, engine_vars, cmd, codec>>

\* set(): write_all_at(&binary_log_entry, file_len)
WriterWrite(w) ==
    /\ writers[w].pc = "write"
    /\ db_file' = write_all_at(db_file, writers[w].binary_log_entry, writers[w].file_len,
                               Len(writers[w].binary_log_entry))
    /\ writers' = [writers EXCEPT ![w].pc = "index"]
    /\ UNCHANGED <<engine_vars, cmd, codec>>

\* set(): the counter and the index are updated
WriterIndex(w) ==
    /\ writers[w].pc = "index"
    /\ writers' = [writers EXCEPT
                      ![w].pc = "done",
                      ![w].sequence_number = @ + 1,
                      ![w].key_position_map =
                          map_insert(@, writers[w].key, writers[w].file_len)]
    /\ UNCHANGED <<db_file, engine_vars, cmd, codec>>

NextConc == \E w \in Writers : WriterFileLen(w) \/ WriterWrite(w) \/ WriterIndex(w)

SpecConc == InitConc /\ [][NextConc]_vars

-----------------------------------------------------------------------------
(* Observations used by the properties *)

Last(s) == s[Len(s)]

\* what a store holding v under a key answers: an empty value reads as not found
Expected(v) == IF v = <<>> THEN None ELSE Some(v)

\* the value history of k in the running engine holds a set followed by a delete
SetThenDeleted(k) ==
    \E i \in 1..(Len(hist[k]) - 1) : hist[k][i] # <<>> /\ hist[k][i + 1] = <<>>

FailKinds == {"set_fail", "delete_fail"}

\* the entry that starts at pos is not wholly inside f
entry_incomplete(f, pos) ==
    LET kl == read_exact_at(f, LenFieldWidth, pos + KeyLenOffset)
        vl == read_exact_at(f, LenFieldWidth, pos + ValLenOffset)
    IN  \/ ~kl.ok
        \/ ~vl.ok
        \/ ~read_exact_at(f, from_be_bytes(vl.bytes),
                          pos + HeaderLen + from_be_bytes(kl.bytes)).ok

-----------------------------------------------------------------------------
(* Properties *)

\* C1: last-write-wins. Once the running engine has set k at least twice and
\* the latest value v2 is non-empty, get(k) answers exactly v2, whatever was
\* done to other keys in between; a get just performed on k returned v2.
C1_LastWriteWins ==
    \A k \in Keys :
        (proc = "up" /\ Len(hist[k]) >= 2 /\ Last(hist[k]) # <<>>)
            => /\ get(db_file, key_position_map, k) = Some(Last(hist[k]))
               /\ (op.kind = "get" /\ op.key = k => ret = Some(Last(hist[k])))

\* C1 witness: k was set to v1, then to a different non-empty v2, another key
\* was written too, and get(k) has just returned v2.
C1_Witness ==
    \E k \in Keys, j \in Keys :
        /\ j # k /\ hist[j] # <<>>
        /\ Len(hist[k]) = 2 /\ hist[k][1] # <<>> /\ hist[k][2] # <<>>
        /\ hist[k][1] # hist[k][2]
        /\ op.kind = "get" /\ op.key = k /\ ret = Some(hist[k][2])

\* C2: tombstone semantics. After set(k, v) then delete(k), get(k) answers not
\* found in every state until a non-empty value is set again, and from then on
\* it answers that value.
C2_Tombstone ==
    \A k \in Keys :
        (proc = "up" /\ SetThenDeleted(k))
            => /\ get(db_file, key_position_map, k) = Expected(Last(hist[k]))
               /\ (op.kind = "get" /\ op.key = k => ret = Expected(Last(hist[k])))

\* C2 witness: set(k, v), delete(k), set(k, v2), and get(k) has returned v2.
C2_Witness ==
    \E k \in Keys :
        /\ Len(hist[k]) = 3 /\ hist[k][1] # <<>> /\ hist[k][2] = <<>> /\ hist[k][3] # <<>>
        /\ op.kind = "get" /\ op.key = k /\ ret = Some(hist[k][3])

\* C3: reopen reproduces state. When an engine is closed and a new one is
\* constructed on the same file, get answers for every key ever set what it
\* answered just before the close.
C3_ReopenReproduces ==
    [][(proc = "closed" /\ proc' = "up")
        => \A k \in Keys :
             acked[k].set =>
                get(db_file', key_position_map', k) = get(db_file, key_position_map, k)]_vars

\* C4: truncated-tail tolerance. When the last entry of the log is cut short
\* strictly inside it, the index rebuilt from the file is the index the engine
\* held before that entry was written.
C4_TruncatedTail ==
    [][(proc = "panicked" /\ op.kind \in FailKinds /\ op.n > 0 /\ proc' = "up")
        => key_position_map' = key_position_map]_vars

\* C5: durability of set. Once set(k, v) has returned, every get(k) that
\* returns, in this run of the engine or after any crash and reopen, answers
\* the value last acknowledged for k.
C5_Durable ==
    (op.kind = "get" /\ acked[op.key].set /\ ret.kind # "panic")
        => ret = Expected(acked[op.key].val)

\* C6: compaction preserves live values. compact() completes, and afterwards
\* get answers for every key what it answered before.
C6_CompactPreserves ==
    [][op'.kind = "compact"
        => /\ proc' = "up"
           /\ \A k \in Keys :
                get(db_file', key_position_map', k) = get(db_file, key_position_map, k)]_vars

\* C7: compaction output is minimal. After compact() the log holds exactly one
\* entry for each key whose value is non-empty and no entry with val_len = 0.
C7_CompactMinimal ==
    op.kind = "compact"
        => LET r == load_key_pos_map_from_file(db_file, 0)
           IN  /\ r.seq = Cardinality(DOMAIN r.mp)
               /\ \A k \in DOMAIN r.mp : get(db_file, r.mp, k).kind = "some"
               /\ \A k \in Keys :
                    get(db_file, key_position_map, k).kind = "some" => k \in DOMAIN r.mp

\* C8: set is all-or-nothing on failure. A set whose append fails reports the
\* failure to its caller and leaves the index, the counter and what get and a
\* later rebuild see of the log as they were.
C8_SetAllOrNothing ==
    [][op'.kind \in FailKinds
        => /\ proc' = "up"
           /\ key_position_map' = key_position_map
           /\ sequence_number' = sequence_number
           /\ \A k \in Keys :
                get(db_file', key_position_map', k) = get(db_file, key_position_map, k)
           /\ load_key_pos_map_from_file(db_file', 0)
                = load_key_pos_map_from_file(db_file, 0)]_vars

\* C9: I/O errors are surfaced, not fatal. A get whose indexed entry is not
\* wholly in the file returns to its caller and the engine stays usable.
C9_GetSurfacesErrors ==
    (/\ op.kind = "get"
     /\ op.key \in DOMAIN key_position_map
     /\ entry_incomplete(db_file, key_position_map[op.key]))
        => proc = "up" /\ ret.kind # "panic"

\* C10: concurrent appends are serialized. When two writers have each finished
\* a set on the same file, their entries lie at distinct offsets, do not
\* overlap, and each is complete in the log, however their steps interleaved.
C10_AppendsSerialized ==
    (\A w \in Writers : writers[w].pc = "done")
        => /\ \A w \in Writers :
                read_exact_at(db_file, Len(writers[w].binary_log_entry),
                              writers[w].file_len)
                    = [ok |-> TRUE, bytes |-> writers[w].binary_log_entry]
           /\ \A w1, w2 \in Writers :
                w1 # w2 =>
                    \/ writers[w1].file_len + Len(writers[w1].binary_log_entry)
                          <= writers[w2].file_len
                    \/ writers[w2].file_len + Len(writers[w2].binary_log_entry)
                          <= writers[w1].file_len

-----------------------------------------------------------------------------
(* C11: record layout *)

\* the entry that a set or delete that returned has just appended
Appended == op.kind \in {"set", "delete"}

\* the appended entry starts where the index says, has a prefix of `header`
\* bytes before its key, and both readers find key and value by that prefix:
\* get reads the value of op.key at the prefix plus the key length, and the
\* rebuild scan started at the entry reads exactly this one entry up to the
\* end of the file
LaidOut(header) ==
    LET pos == key_position_map[op.key]
        key_len == Len(op.key)
        val_len == Len(op.val)
    IN  /\ Len(db_file) = pos + header + key_len + val_len
        /\ read_exact_at(db_file, key_len, pos + header).bytes = op.key
        /\ read_exact_at(db_file, val_len, pos + header + key_len).bytes = op.val
        /\ val_offset(pos, key_len) = pos + header + key_len
        /\ get(db_file, key_position_map, op.key) = Expected(op.val)
        /\ scan(db_file, pos, EmptyMap, 0) =
               [mp |-> map_insert(EmptyMap, op.key, pos), seq |-> 1]

\* the prefix as the claim has it: 8-byte timestamp and two 4-byte lengths
ClaimedHeaderLen == 8 + 2 * LenFieldWidth

\* C11 as stated: every entry written by set(k, v) occupies 16 + key_len +
\* val_len bytes, with the key at entry offset + 16 and the value at entry
\* offset + 16 + key_len
C11_Prefix16 == Appended => LaidOut(ClaimedHeaderLen)

\* C11: every entry written by set(k, v) occupies exactly 24 + key_len +
\* val_len bytes (16-byte timestamp, 4-byte key_len, 4-byte val_len, then key
\* and value), and get and the rebuild scan locate the key at entry offset + 24
\* and the value at entry offset + 24 + key_len
C11_Prefix24 == Appended => LaidOut(HeaderLen)

\* a set of a two-byte value has returned on a log that already held an entry
C11_Witness ==
    /\ Appended
    /\ op.kind = "set"
    /\ Len(op.val) = 2
    /\ key_position_map[op.key] > 0

-----------------------------------------------------------------------------
(* Encoding of entries whose key or value is 4 GiB or longer.  The bytes of
   such a key cannot be enumerated, so this specification applies the encoder
   of set to the two lengths alone. *)

\* lengths around the u32 range: 0, 1, 2^24 - 1, 2^32 - 2^24, ..., 2^33 + 2^24 - 1
Lens == { <<hi, lo>> : hi \in {0, 255, 256, 257, 512}, lo \in {0, 1, 16777215} }

\* len > u32::MAX
exceeds_u32(len) == len[1] >= 256

InitCodec == Init

\* set with a key of key_len bytes and a value of val_len bytes: to_binary_log
\* returns the entry (it has no error result) and set writes it
EncodeEntry ==
    /\ proc = "up"
    /\ \E key_len \in Lens, val_len \in Lens, t \in Times :
           codec' = [key_len |-> key_len, val_len |-> val_len,
                     result |-> "ok",
                     header |-> binary_header(t, key_len, val_len)]
    /\ UNCHANGED <<db_file, engine_vars, writers, cmd>>

NextCodec == EncodeEntry

SpecCodec == InitCodec /\ [][NextCodec]_vars

\* the length that a stored 4-byte field decodes to, as <<hi, lo>>
stored_len(header, off) ==
    <<header[off + 1],
      (header[off + 2] * 256 + header[off + 3]) * 256 + header[off + 4]>>

\* C12: for a key or value whose byte length exceeds 2^32 - 1, set fails with
\* an encoding error and writes nothing; equivalently the stored key_len and
\* val_len are never the length reduced modulo 2^32
C12_OversizedRejected ==
    codec # NoCodec =>
        /\ (exceeds_u32(codec.key_len) \/ exceeds_u32(codec.val_len))
               => codec.result = "encoding_error"
        /\ codec.result = "ok" =>
               /\ stored_len(codec.header, KeyLenOffset) = codec.key_len
               /\ stored_len(codec.header, ValLenOffset) = codec.val_len

-----------------------------------------------------------------------------
(* The index rebuild as an operation of its own: load_key_pos_map_from_file
   run on an engine that already holds some index and some counter *)

AllEntries == { to_binary_log(t, k, v) : t \in Times, k \in Keys, v \in Vals }

\* logs of up to two entries, with every cut of the second one
SampleLogs ==
    {<<>>} \cup
    UNION { { SubSeq(e1 \o e2, 1, n) : n \in Len(e1)..(Len(e1) + Len(e2)) } :
            e1 \in AllEntries, e2 \in AllEntries }

\* indexes an engine may hold before the rebuild: none, offsets of entries that
\* are no longer the latest, and a key the file may not contain
HeldMaps ==
    {EmptyMap} \cup { map_insert(EmptyMap, k, 0) : k \in Keys }
               \cup { map_insert(map_insert(EmptyMap, k1, 0), k2, HeaderLen + 1) :
                      k1 \in Keys, k2 \in Keys }

InitRebuild ==
    /\ db_file \in SampleLogs
    /\ synced = 0
    /\ proc = "up"
    /\ key_position_map \in HeldMaps
    /\ sequence_number \in 0..MaxOps
    /\ op = Op("new", <<>>, <<>>, 0)
    /\ ret = NoRet
    /\ hist = NoHist
    /\ acked = NoAck
    /\ nops = 0
    /\ ncrash = 0
    /\ writers = NoWriters
    /\ cmd = NoCmd
    /\ codec = NoCodec

\* self.load_key_pos_map_from_file()
Rebuild ==
    /\ proc = "up"
    /\ nops < MaxOps
    /\ LET r == load_key_pos_map_from_file(db_file, sequence_number)
       IN  /\ key_position_map' = r.mp
           /\ sequence_number' = r.seq
    /\ op' = Op("rebuild", <<>>, <<>>, 0)
    /\ nops' = nops + 1
    /\ UNCHANGED <<db_file, synced, proc, ret, hist, acked, ncrash, other_vars>>

NextRebuild == Rebuild

SpecRebuild == InitRebuild /\ [][NextRebuild]_vars

\* C13: the rebuild is deterministic and idempotent: a rebuild that follows a
\* rebuild of the same unchanged log yields the identical key-to-offset
\* mapping, and the mapping does not depend on the index or counter the engine
\* held before: it is the one a scan from offset 0 into an empty index gives
C13_RebuildIdempotent ==
    [][op'.kind = "rebuild" =>
           /\ key_position_map' = scan(db_file, 0, EmptyMap, 0).mp
           /\ op.kind = "rebuild" => key_position_map' = key_position_map]_vars

\* a second rebuild has run on a log that holds entries of one key only
C13_Witness ==
    /\ op.kind = "rebuild"
    /\ nops >= 2
    /\ DOMAIN key_position_map # {}
    /\ DOMAIN key_position_map # Keys

-----------------------------------------------------------------------------
(* C14: the index against the log *)

RECURSIVE log_entries(_, _)
\* the complete entries of f from pos on, in file order, each with its start
\* offset; the sequence ends at the first entry that is not wholly in the file
log_entries(f, pos) ==
    LET kl == read_exact_at(f, LenFieldWidth, pos + KeyLenOffset)
        vl == read_exact_at(f, LenFieldWidth, pos + ValLenOffset)
    IN  IF pos >= Len(f) \/ ~kl.ok \/ ~vl.ok THEN <<>>
        ELSE LET key_len == from_be_bytes(kl.bytes)
                 val_len == from_be_bytes(vl.bytes)
                 size == HeaderLen + key_len + val_len
                 room == Len(f) - pos - HeaderLen
             IN  IF key_len > room \/ val_len > room - key_len THEN <<>>
                 ELSE <<[pos |-> pos, size |-> size,
                         key |-> SubSeq(f, pos + HeaderLen + 1,
                                        pos + HeaderLen + key_len)]>>
                      \o log_entries(f, pos + size)

\* the offset just behind the last complete entry
entries_end(f) ==
    LET es == log_entries(f, 0)
    IN  IF es = <<>> THEN 0 ELSE es[Len(es)].pos + es[Len(es)].size

\* a concatenation of complete entries and nothing else
well_formed(f) == entries_end(f) = Len(f)

\* C14: whenever the log is a concatenation of complete entries (the engine was
\* constructed on a well-formed log and has run any sequence of set, delete and
\* get since), the key index contains exactly the keys that have at least one
\* entry in the log and maps each to the start offset of the last entry for
\* that key in file order
C14_IndexMatchesLog ==
    (proc = "up" /\ well_formed(db_file)) =>
        LET es == log_entries(db_file, 0)
        IN  /\ DOMAIN key_position_map = { es[i].key : i \in DOMAIN es }
            /\ \A k \in DOMAIN key_position_map :
                   \E i \in DOMAIN es :
                       /\ es[i].key = k
                       /\ es[i].pos = key_position_map[k]
                       /\ \A j \in DOMAIN es : es[j].key = k => j <= i

\* a key was written twice and another key once, in one session on a
\* well-formed log, and a get has run since
C14_Witness ==
    /\ proc = "up"
    /\ well_formed(db_file)
    /\ op.kind = "get"
    /\ Len(log_entries(db_file, 0)) = 3
    /\ DOMAIN key_position_map = Keys
    /\ \E k \in Keys : Len(hist[k]) = 2

-----------------------------------------------------------------------------
(* C15: appends *)

\* this step is a call of set or delete, returned or failed
SetStep == nops' = nops + 1 /\ op'.kind \in {"set", "delete"} \cup FailKinds

\* C15: every set or delete writes its entry starting at the file length
\* observed at the time of the call: the bytes written are the entry (or, when
\* the write fails, its first op.n bytes) and sit at and above that length, the
\* new start offset is above the start offset of every entry of the index, the
\* file length does not decrease and no byte below the previous file length is
\* modified
C15_AppendOnly ==
    [][SetStep =>
           LET file_len == Len(db_file)
               written == SubSeq(db_file', file_len + 1, Len(db_file'))
           IN  /\ Len(db_file') >= file_len
               /\ SubSeq(db_file', 1, file_len) = db_file
               /\ \E t \in Times :
                      written = SubSeq(to_binary_log(t, op'.key, op'.val),
                                       1, op'.n)
               /\ \A k \in DOMAIN key_position_map :
                      key_position_map[k] < file_len
               /\ op'.kind \in {"set", "delete"} =>
                      key_position_map'[op'.key] = file_len]_vars

\* a third entry has been appended behind two others
C15_Witness ==
    /\ op.kind \in {"set", "delete"}
    /\ Len(log_entries(db_file, 0)) = 3
    /\ key_position_map[op.key] = log_entries(db_file, 0)[3].pos

-----------------------------------------------------------------------------
(* C16: delete *)

\* this step is a delete, or a set of the empty value, that returned
TombstoneStep ==
    /\ nops' = nops + 1
    /\ op'.kind = "delete" \/ (op'.kind = "set" /\ op'.val = <<>>)

\* C16: delete(k) is exactly set(k, empty value): either call appends one
\* entry for k with val_len = 0 at the end of the file, counts it, and leaves k
\* in the index pointing at that entry, whether or not k was in the index
\* before; both lead to the same file, index and counter, and get(k) returns
\* not found afterwards
C16_DeleteIsEmptySet ==
    [][TombstoneStep =>
           LET k == op'.key
               pos == Len(db_file)
           IN  /\ \E t \in Times : db_file' = db_file \o to_binary_log(t, k, <<>>)
               /\ from_be_bytes(
                      read_exact_at(db_file', LenFieldWidth, pos + ValLenOffset).bytes) = 0
               /\ Len(db_file') = pos + HeaderLen + Len(k)
               /\ DOMAIN key_position_map' = DOMAIN key_position_map \cup {k}
               /\ key_position_map'[k] = pos
               /\ \A j \in DOMAIN key_position_map \ {k} :
                      key_position_map'[j] = key_position_map[j]
               /\ sequence_number' = sequence_number + 1
               /\ get(db_file', key_position_map', k) = None]_vars

\* delete has returned for a key that no entry of the log had before
C16_Witness ==
    /\ op.kind = "delete"
    /\ ncrash = 0
    /\ \E k \in Keys :
           /\ k # op.key
           /\ DOMAIN key_position_map = Keys
           /\ key_position_map[k] = 0
           /\ key_position_map[op.key] = HeaderLen + Len(k) + 1
           /\ Len(db_file) = key_position_map[op.key] + HeaderLen + Len(op.key)

-----------------------------------------------------------------------------
(* C17: the sequence counter *)

\* C17: after construction sequence_number equals the number of complete
\* entries in the log file, every set or delete that returns increases it by
\* exactly one, and it never decreases while the engine runs
C17_SequenceCountsEntries ==
    [][/\ op'.kind = "new" =>
              sequence_number' = Len(log_entries(db_file', 0))
       /\ (nops' = nops + 1 /\ op'.kind \in {"set", "delete"}) =>
              sequence_number' = sequence_number + 1
       /\ (proc = "up" /\ proc' = "up") =>
              sequence_number' >= sequence_number]_vars

-----------------------------------------------------------------------------
(* C18: appending behind a truncated tail *)

RECURSIVE vals_bytes(_, _)
\* the size of the entries that the sets of vs to key k appended
vals_bytes(k, vs) ==
    IF vs = <<>> THEN 0
    ELSE HeaderLen + Len(k) + Len(Head(vs)) + vals_bytes(k, Tail(vs))

RECURSIVE hist_bytes(_, _)
\* the size of the entries that the sets recorded in h appended
hist_bytes(h, ks) ==
    IF ks = {} THEN 0
    ELSE LET k == CHOOSE x \in ks : TRUE
         IN  vals_bytes(k, h[k]) + hist_bytes(h, ks \ {k})

\* the log as this engine found it when it was constructed
opened_file == SubSeq(db_file, 1, Len(db_file) - hist_bytes(hist, DOMAIN hist))

\* complete entries followed by the first bytes, not all, of one more entry
torn_tail(f) ==
    LET end == entries_end(f)
        rest == SubSeq(f, end + 1, Len(f))
    IN  /\ rest # <<>>
        /\ \E e \in AllEntries :
               Len(rest) < Len(e) /\ rest = SubSeq(e, 1, Len(rest))

\* C18: writes after a truncated-tail recovery survive a restart. When an
\* engine that was opened on a log whose last entry is incomplete has set some
\* keys and was closed, the engine opened next returns for every key set the
\* value set last (not found for the empty value), and for every other key
\* what the first engine returned for it when it was opened
C18_SurvivesTornTail ==
    [][(/\ proc = "closed"
        /\ proc' = "up"
        /\ torn_tail(opened_file)
        /\ \E k \in Keys : hist[k] # <<>>) =>
           \A k \in Keys :
               LET recovered ==
                       get(opened_file,
                           load_key_pos_map_from_file(opened_file, 0).mp, k)
                   now == get(db_file', key_position_map', k)
               IN  IF hist[k] # <<>> THEN now = Expected(Last(hist[k]))
                   ELSE recovered # Panic => now = recovered]_vars

-----------------------------------------------------------------------------
(* The command loop of main *)

ActionTokens == {"SET", "get", "Del", "showkeys", "put"}

to_ascii_lowercase(s) ==
    IF s = "SET" THEN "set" ELSE IF s = "Del" THEN "del" ELSE s

\* a line after trim and split_whitespace: the action token, then key and
\* value tokens (a token is never empty)
Lines ==
    {<<>>} \cup { <<a>> : a \in ActionTokens }
           \cup { <<a, k>> : a \in ActionTokens, k \in Keys }
           \cup { <<a, k, v>> : a \in ActionTokens, k \in Keys, v \in Vals \ {<<>>} }

\* what the loop prints before it executes the action
validation_messages(line, action_lower) ==
    (IF action_lower \notin {"set", "get", "del", "showkeys"}
     THEN <<"Supported actions">> ELSE <<>>)
    \o (IF Len(line) < 2 /\ action_lower # "showkeys"
        THEN <<"Expected key for action">> ELSE <<>>)
    \o (IF Len(line) < 3 /\ action_lower = "set"
        THEN <<"Expected value for SET action">> ELSE <<>>)

\* the iteration ends in a panic: unwrap() on None, todo!() or unreachable!()
main_panics(line, printed) ==
    /\ proc' = "panicked"
    /\ cmd' = [line |-> line, printed |-> printed]
    /\ op' = Op("panic", <<>>, <<>>, 0)
    /\ ret' = NoRet
    /\ nops' = nops + 1
    /\ UNCHANGED <<db_file, synced, key_position_map, sequence_number, hist,
                   acked, ncrash, writers, codec>>

\* one iteration of the loop of main on the line read
main(line) ==
    IF Len(line) < 1 THEN main_panics(line, <<"Usage">>)
    ELSE
      LET action_lower == to_ascii_lowercase(line[1])
          key == IF Len(line) >= 2 THEN line[2] ELSE EmptyKey
          val == IF Len(line) >= 3 THEN line[3] ELSE <<>>
          printed == validation_messages(line, action_lower)
      IN  IF action_lower = "set" THEN
              \E t \in Times : \E n \in 0..Len(to_binary_log(t, key, val)) :
                  /\ set("set", key, val, t, n)
                  /\ cmd' = [line |-> line,
                             printed |-> IF n = Len(to_binary_log(t, key, val))
                                         THEN Append(printed, ">> key = val")
                                         ELSE printed]
          ELSE IF action_lower = "get" THEN
              LET outcome == get(db_file, key_position_map, key)
              IN  /\ ret' = outcome
                  /\ proc' = IF outcome = Panic THEN "panicked" ELSE proc
                  /\ op' = Op("get", key, <<>>, 0)
                  /\ cmd' = [line |-> line,
                             printed |-> IF outcome = Panic THEN printed
                                         ELSE IF outcome = None
                                         THEN Append(printed, "Key not found")
                                         ELSE Append(printed, ">> key = value")]
                  /\ nops' = nops + 1
                  /\ UNCHANGED <<db_file, synced, key_position_map,
                                 sequence_number, hist, acked, ncrash, writers,
                                 codec>>
          ELSE IF action_lower = "del" THEN
              \E t \in Times : \E n \in 0..Len(to_binary_log(t, key, <<>>)) :
                  /\ set("delete", key, <<>>, t, n)
                  /\ cmd' = [line |-> line,
                             printed |-> IF n = Len(to_binary_log(t, key, <<>>))
                                         THEN Append(printed, "DEL key")
                                         ELSE printed]
          ELSE main_panics(line, printed)

MainLoop ==
    /\ proc = "up"
    /\ nops < MaxOps
    /\ \E line \in Lines : main(line)

NextMain == MainLoop

SpecMain == Init /\ [][NextMain]_vars

\* the line fails the validation of the loop: it is empty, names no supported
\* action, is a SET without a value, or a SET, GET or DEL without a key
fails_validation(line) ==
    \/ Len(line) < 1
    \/ to_ascii_lowercase(line[1]) \notin {"set", "get", "del", "showkeys"}
    \/ to_ascii_lowercase(line[1]) = "set" /\ Len(line) < 3
    \/ to_ascii_lowercase(line[1]) \in {"set", "get", "del"} /\ Len(line) < 2

\* C19: a command that fails validation changes nothing: the loop prints a
\* message, leaves the log file and the index unchanged and goes on to read
\* the next command
C19_InvalidCommandNoEffect ==
    [][(nops' = nops + 1 /\ fails_validation(cmd'.line)) =>
           /\ cmd'.printed # <<>>
           /\ db_file' = db_file
           /\ key_position_map' = key_position_map
           /\ proc' = "up"]_vars

-----------------------------------------------------------------------------
(* C20: get is read-only *)

\* C20: for every key, present, tombstoned or absent, get(k) leaves the log
\* file's contents and length, the key index and the sequence counter
\* unchanged, and a get(k) that directly follows a get(k) returns the same
\* result
C20_GetReadOnly ==
    [][op'.kind = "get" =>
           /\ db_file' = db_file
           /\ key_position_map' = key_position_map
           /\ sequence_number' = sequence_number
           /\ (op.kind = "get" /\ op.key = op'.key) => ret' = ret]_vars

\* get has returned not found for a tombstoned key that is still in the index,
\* beside a key with a value
C20_Witness ==
    /\ op.kind = "get"
    /\ ret = None
    /\ op.key \in DOMAIN key_position_map
    /\ \E k \in DOMAIN key_position_map :
           get(db_file, key_position_map, k).kind = "some"

====
